---- MODULE Spec2Model ----
(***************************************************************************)
(* State-machine model of src/pro_active_delivery/worker.js: the HubSpot   *)
(* pull worker.  One process walks the configured accounts; per account it *)
(* refreshes the access token, runs the contacts, companies and meetings   *)
(* passes, drains the action queue and saves the domain.                   *)
(*                                                                         *)
(* An action of the model is one event-loop task of the worker: the code   *)
(* that runs from the arrival of an awaited response up to the next await. *)
(*                                                                         *)
(* Times are small integers (milliseconds of the source's Dates).  The     *)
(* page size (100 in the source), the cursor depth limit (9900) and the    *)
(* flush threshold (2000) are scaled down to limit, CursorLimit and        *)
(* FlushThreshold so that a cursor reset and a threshold flush happen on   *)
(* data sets of a handful of records.                                      *)
(***************************************************************************)
EXTENDS Integers, Sequences, FiniteSets, TLC

----------------------------------------------------------------------------
(* Bounds of the model. *)

NumAccounts == 2
MaxRecords == 5
limit == 2
CursorLimit == 4
FlushThreshold == 2
MaxTicks == 1
MaxFaults == 1
MaxPages == 4
BaseTime == 2
ExpiresIn == 0

(* Program constants. *)

MaxRetries == 4
CompanyDateOffset == 2000
Undefined == -1
Null == -2

----------------------------------------------------------------------------
(* Vocabulary. *)

Accounts == 1..NumAccounts
Kinds == {"contacts", "companies", "meetings"}
Clock0 == BaseTime + 3
MaxClock == Clock0 + MaxTicks
NoToken == <<0, 0>>
NoIdentity == 0

Min(a, b) == IF a < b THEN a ELSE b

\* JavaScript truthiness of a number-or-undefined value: undefined, NaN and 0
\* are falsy.
Truthy(v) == v # Undefined /\ v # 0

----------------------------------------------------------------------------
(* The remote collections.  Record i of a collection was last modified at  *)
(* BaseTime + (i-1) \div g, so g consecutive records share a modified time *)
(* and the collection is sorted ascending by modified time.                *)

UpdatedAt(i, g) == BaseTime + ((i - 1) \div g)

CreatedAt(i, g) ==
  CASE i % 3 = 1 -> UpdatedAt(i, g)
    [] i % 3 = 2 -> BaseTime
    [] OTHER -> BaseTime - 1

\* The email of contact cid, NoIdentity when the contact has none.
EmailOf(cid) == IF cid % 3 = 0 THEN NoIdentity ELSE cid

\* The company associated with contact cid, Undefined when there is none.
CompanyOf(cid) == IF cid % 2 = 1 THEN 100 + cid ELSE Undefined

\* The contacts associated with meeting mid.
AttendeesOf(mid) ==
  CASE mid % 3 = 1 -> <<mid, 3>>
    [] mid % 3 = 2 -> <<mid>>
    [] OTHER -> <<>>

\* The value of an optional property of record i, Null when the remote holds
\* none: every other record has no job title, domain or meeting title, every
\* third no industry.
OptionalProperty(i, every) == IF i % every = 0 THEN Null ELSE i

RemoteRecord(i, g) ==
  [id |-> i, createdAt |-> CreatedAt(i, g), updatedAt |-> UpdatedAt(i, g),
   hasProperties |-> TRUE, email |-> EmailOf(i),
   jobtitle |-> OptionalProperty(i, 2), domain |-> OptionalProperty(i, 2),
   industry |-> OptionalProperty(i, 3), hs_meeting_title |-> OptionalProperty(i, 2)]

GroupSizes == {1, 2, MaxRecords}

DataSets ==
  {[i \in 1..n |-> RemoteRecord(i, g)] : n \in 0..MaxRecords, g \in GroupSizes}

\* The collections of a run over n accounts: any for one account, of one
\* record at most for two accounts, empty for more.
RunDataSets(n) == {d \in DataSets : Len(d) * (n - 1) <= 1}

----------------------------------------------------------------------------
VARIABLES
  remote,               \* the remote collections: kind -> records
  accounts,             \* domain.integrations.hubspot.accounts, as hubIds
  lastPulledDates,      \* account.lastPulledDates: account -> kind -> watermark
  accessToken,          \* account.accessToken, per account
  clientToken,          \* the access token hubspotClient currently holds
  expirationDate,       \* the tracked expiry of the current token
  clock,                \* what new Date() reads
  acct,                 \* the account the for-loop of pullDataFromHubspot is at
  kind,                 \* the entity kind of the current pass
  pc,                   \* the await the worker is suspended at
  lastPulledDate,       \* process*: const lastPulledDate
  now,                  \* process*: const now
  offsetObject,         \* process*: offsetObject {after, lastModifiedDate}
  tryCount,             \* process*: let tryCount
  data,                 \* process*: the page being processed
  meetingToContactsMap, \* processMeetings: meeting id -> contact ids of the page
  actions,              \* the in-memory array of actions of the account
  q,                    \* tasks pushed to the queue and not yet given to the worker
  sink,                 \* the batches handed to goal(), in order
  delivered,            \* the batches of sink whose delivery goal() has completed
  pushed,               \* history: the actions the current pass has pushed
  serial,               \* history: number of q.push calls for the account so far
  outcome,              \* history: account -> kind -> "none" | "DONE" | "FAILED"
  faults,               \* history: retry loops with a failed search, and failed
                        \* association and batch reads, so far
  pages,                \* history: pages fetched by the current pass
  searches,             \* history: doSearch calls made by the current retry loop
  passStart,            \* history: the watermark and the clock at pass start
  passLog,              \* history: what the responses of the current pass were
  nextAfter,            \* history: the next cursor of the last response
  refreshCall,          \* history: the last call of refreshAccessToken, with
                        \* what the token exchange answered and what it returned
  refreshes             \* history: refreshAccessToken calls made by the current
                        \* retry loop

vars ==
  <<remote, accounts, lastPulledDates, accessToken, clientToken, expirationDate, clock,
    acct, kind, pc, lastPulledDate, now, offsetObject, tryCount, data,
    meetingToContactsMap, actions, q, sink, delivered, pushed, serial, outcome,
    faults, pages, searches, passStart, passLog, nextAfter, refreshCall, refreshes>>

credVars == <<accessToken, clientToken, expirationDate>>
bufferVars == <<actions, q, sink>>
passConsts == <<lastPulledDate, now, passStart>>
refreshHist == <<refreshCall, refreshes>>

----------------------------------------------------------------------------
(* The remote search API: the records of the collection whose modified     *)
(* time lies in [lo, hi] (operators GTQ and LTQ), sorted ascending, cut to *)
(* the page that starts after `after` records; next is the cursor of the   *)
(* following page, Undefined on the last page.                             *)

\* mutant: the lower end of the window is exclusive
InWindow_Exclusive(r, lo, hi) == r.updatedAt > lo /\ r.updatedAt <= hi

InWindow(r, lo, hi) == r.updatedAt >= lo /\ r.updatedAt <= hi

generateLastModifiedDateFilter(date, nowDate) == [GTQ |-> date, LTQ |-> nowDate]

doSearch(collection, filter, after) ==
  LET matching == SelectSeq(collection, LAMBDA r : InWindow(r, filter.GTQ, filter.LTQ))
      start == IF after = Undefined THEN 0 ELSE after
      last == Min(start + limit, Len(matching))
  IN  [results |-> SubSeq(matching, start + 1, last),
       next |-> IF start + limit < Len(matching) THEN start + limit ELSE Undefined]

\* const lastModifiedDate = offsetObject.lastModifiedDate || lastPulledDate
WindowStart ==
  IF Truthy(offsetObject.lastModifiedDate)
  THEN offsetObject.lastModifiedDate
  ELSE lastPulledDate

\* mutant: the filter is rebuilt from the clock for every request
WindowEnd_Rebuilt == clock

\* The upper end of the filter window of every request of the pass.
WindowEnd == now

SearchResult ==
  doSearch(remote[kind], generateLastModifiedDateFilter(WindowStart, WindowEnd),
           offsetObject.after)

\* What tells the search requests of a pass apart: the window start and the
\* cursor, a request without cursor starting where cursor 0 does.
SearchRequest ==
  <<WindowStart, IF offsetObject.after = Undefined THEN 0 ELSE offsetObject.after>>

----------------------------------------------------------------------------
(* The transform step of each entity kind.                                 *)

\* mutant: a record created exactly at the watermark counts as created
IsCreated_Inclusive(createdAt, watermark) == createdAt >= watermark

\* new Date(record.createdAt) > lastPulledDate
IsCreated(createdAt, watermark) == createdAt > watermark

CompanyActionDate(isCreated, company) ==
  (IF isCreated THEN company.createdAt ELSE company.updatedAt) - CompanyDateOffset

ContactActionDate(isCreated, contact) ==
  IF isCreated THEN contact.createdAt ELSE contact.updatedAt

MeetingActionDate(isCreated, meeting) ==
  IF isCreated THEN meeting.createdAt ELSE meeting.updatedAt

\* filterNullValuesFromObject of ./utils: the map without its null-valued keys.
filterNullValuesFromObject(object) ==
  [key \in {k \in DOMAIN object : object[k] # Null} |-> object[key]]

\* companyProperties, as the action template holds it
CompanyProperties(company) ==
  [company_domain |-> company.domain, company_industry |-> company.industry]

\* userProperties of a contact action
ContactProperties(contact) ==
  filterNullValuesFromObject([contact_title |-> contact.jobtitle])

\* userProperties of a meeting action
MeetingProperties(meeting) ==
  filterNullValuesFromObject([meeting_title |-> meeting.hs_meeting_title])

\* src and kind are history fields: the remote record an action was built from.
CompanyAction(company) ==
  LET isCreated == IsCreated(company.createdAt, lastPulledDate)
  IN  [actionName |-> IF isCreated THEN "Company Created" ELSE "Company Updated",
       actionDate |-> CompanyActionDate(isCreated, company),
       identity |-> NoIdentity,
       company_id |-> company.id,
       properties |-> CompanyProperties(company),
       kind |-> "companies", src |-> company.id]

ContactAction(contact, companyAssociations) ==
  LET isCreated == IsCreated(contact.createdAt, lastPulledDate)
  IN  [actionName |-> IF isCreated THEN "Contact Created" ELSE "Contact Updated",
       actionDate |-> ContactActionDate(isCreated, contact),
       identity |-> contact.email,
       company_id |-> IF contact.id \in DOMAIN companyAssociations
                      THEN companyAssociations[contact.id] ELSE Undefined,
       properties |-> ContactProperties(contact),
       kind |-> "contacts", src |-> contact.id]

MeetingAction(meeting, email) ==
  LET isCreated == IsCreated(meeting.createdAt, lastPulledDate)
  IN  [actionName |-> IF isCreated THEN "Meeting Created" ELSE "Meeting Updated",
       actionDate |-> MeetingActionDate(isCreated, meeting),
       identity |-> email,
       company_id |-> Undefined,
       properties |-> MeetingProperties(meeting),
       kind |-> "meetings", src |-> meeting.id]

MapSeq(s, Op(_)) == [i \in 1..Len(s) |-> Op(s[i])]

\* data.forEach of processCompanies
CompanyActions(page) ==
  MapSeq(SelectSeq(page, LAMBDA c : c.hasProperties), CompanyAction)

\* mutant: a record is transformed whether or not it has an email
HasEmail_Any(email) == TRUE

\* !contact.properties.email and !email: a missing or empty email is falsy
HasEmail(email) == email # NoIdentity

\* data.forEach of processContacts
ContactActions(page, companyAssociations) ==
  MapSeq(SelectSeq(page, LAMBDA c : c.hasProperties /\ HasEmail(c.email)),
         LAMBDA c : ContactAction(c, companyAssociations))

\* contactIds.forEach of processMeetings, for one meeting
MeetingContactActions(meeting, contactIds, contactIdToEmail) ==
  LET resolved == SelectSeq(contactIds,
                    LAMBDA cid : cid \in DOMAIN contactIdToEmail
                                 /\ HasEmail(contactIdToEmail[cid]))
  IN  MapSeq(resolved, LAMBDA cid : MeetingAction(meeting, contactIdToEmail[cid]))

\* The records of the page that data.forEach of processMeetings gets through:
\* reading the properties of a meeting that has none throws.
RECURSIVE ReadablePrefix(_)
ReadablePrefix(page) ==
  IF page = <<>> \/ ~Head(page).hasProperties
  THEN <<>>
  ELSE <<Head(page)>> \o ReadablePrefix(Tail(page))

RECURSIVE MeetingActions(_, _, _)
MeetingActions(page, assocMap, contactIdToEmail) ==
  IF page = <<>>
  THEN <<>>
  ELSE LET meeting == Head(page)
           contactIds == IF meeting.id \in DOMAIN assocMap
                         THEN assocMap[meeting.id] ELSE <<>>
       IN  MeetingContactActions(meeting, contactIds, contactIdToEmail)
             \o MeetingActions(Tail(page), assocMap, contactIdToEmail)

----------------------------------------------------------------------------
(* refreshAccessToken: the OAuth exchange either fails (ok = FALSE) or     *)
(* returns newAccessToken with an expiry ExpiresIn from the current time.  *)

\* The access token the OAuth server issues for the refresh token of hubId.
IssuedToken(hubId) == <<hubId, 2>>

\* domain.integrations.hubspot.accounts.find((acc) => acc.hubId === hubId)
HasAccount(hubId) == \E i \in DOMAIN accounts : accounts[i] = hubId

\* mutant: an error of the token exchange is not noticed
RefreshReturns_Lenient(hubId, ok) == HasAccount(hubId)

\* What the call returns: true unless there is no such account or the token
\* exchange throws.
RefreshReturns(hubId, ok) == HasAccount(hubId) /\ ok

refreshAccessToken(hubId, ok, newAccessToken) ==
  /\ refreshCall' = [hubId |-> hubId, ok |-> ok, newAccessToken |-> newAccessToken,
                     returned |-> RefreshReturns(hubId, ok)]
  /\ IF RefreshReturns(hubId, ok)
     THEN /\ expirationDate' = ExpiresIn + clock
          /\ clientToken' = newAccessToken
          /\ accessToken' = [accessToken EXCEPT ![hubId] =
                               IF newAccessToken # @ THEN newAccessToken ELSE @]
     ELSE UNCHANGED credVars

\* No call of refreshAccessToken has been made.
NoCall == [hubId |-> 0, ok |-> FALSE, newAccessToken |-> NoToken, returned |-> FALSE]

\* new Date() > expirationDate; false while expirationDate is undefined
TokenExpired == expirationDate # Undefined /\ clock > expirationDate

----------------------------------------------------------------------------
(* The action queue: createQueue's worker and the pushes of the passes.    *)

Tag(a, n) ==
  [f \in DOMAIN a \cup {"serial"} |-> IF f = "serial" THEN n ELSE a[f]]

Batch(by, batch) == [account |-> acct, by |-> by, batch |-> batch]

\* q.push of every action of acts, in order
Push(acts) ==
  LET tagged == [i \in 1..Len(acts) |-> Tag(acts[i], serial + i)]
  IN  /\ q' = q \o tagged
      /\ pushed' = pushed \o tagged
      /\ serial' = serial + Len(acts)

\* mutant: the flush comes one push late
ExceedsThreshold_Late(length) == length > FlushThreshold + 1

\* if (actions.length > 2000)
ExceedsThreshold(length) == length > FlushThreshold

\* mutant: the live collection is not cleared after the snapshot
Spliced_Kept(live) == live

\* actions.splice(0, actions.length): what is left of the live collection
Spliced(live) == <<>>

\* The worker of createQueue, for the task at the head of the queue.
QueueWorker ==
  /\ pc # "exited"
  /\ q # <<>>
  /\ q' = Tail(q)
  /\ LET appended == Append(actions, Head(q))
     IN  IF ExceedsThreshold(Len(appended))
         THEN /\ sink' = Append(sink, Batch("threshold", appended))
              /\ actions' = Spliced(appended)
         ELSE /\ actions' = appended
              /\ sink' = sink
  /\ UNCHANGED <<delivered, refreshHist, remote, accounts, lastPulledDates, credVars, clock, acct, kind, pc,
                 passConsts, offsetObject, tryCount, data, meetingToContactsMap,
                 pushed, serial, outcome, faults, pages, searches, nextAfter, passLog>>

----------------------------------------------------------------------------
(* The end of a pass and the end of a page.                                *)

\* mutant: the companies pass is left out
NextKind_Skipping(k) == "meetings"

NextKind(k) ==
  CASE k = "contacts" -> "companies"
    [] k = "companies" -> "meetings"
    [] OTHER -> "meetings"

\* The pass returns to pullDataFromHubspot, which goes on to the next step.
PassReturns(result) ==
  /\ outcome' = [outcome EXCEPT ![acct][kind] = result]
  /\ pc' = IF kind = "meetings" THEN "drain" ELSE "start"
  /\ kind' = NextKind(kind)

\* mutant: the watermark is taken from the clock when the pass ends
CommittedWatermark_Late == clock

\* account.lastPulledDates.<kind> = now
CommittedWatermark == now

\* return true, after the watermark is set
PassSucceeds ==
  /\ lastPulledDates' = [lastPulledDates EXCEPT ![acct][kind] = CommittedWatermark]
  /\ PassReturns("DONE")

\* mutant: the watermark is committed before the pass is known to succeed
WatermarkAfterFailure_Committed == now

\* What the catch block of the pass leaves in account.lastPulledDates.<kind>
WatermarkAfterFailure == lastPulledDates[acct][kind]

\* catch (error) { return false }
PassFails ==
  /\ lastPulledDates' = [lastPulledDates EXCEPT ![acct][kind] = WatermarkAfterFailure]
  /\ PassReturns("FAILED")

\* offsetObject.lastModifiedDate at a cursor reset: the modified time of the
\* last record of the page
ResetWindowStart(page) == page[Len(page)].updatedAt

\* mutant: the cursor is reset one page before the depth limit
CursorExhausted_Early(after) == after >= CursorLimit - limit

\* else if (offsetObject?.after >= 9900)
CursorExhausted(after) == after >= CursorLimit

\* mutant: the cursor is kept at the reset
ResetCursor_Kept(after) == after

\* offsetObject.after = 0: the cursor of the request that follows a reset
ResetCursor(after) == 0

\* The code from the forEach that pushes the actions of the page to the next
\* request, or to the return of the pass; after is the parsed next cursor.
EndOfPage(page, after, acts) ==
  /\ Push(acts)
  /\ nextAfter' = after
  /\ tryCount' = 0
  /\ IF ~Truthy(after)
     THEN /\ offsetObject' = [offsetObject EXCEPT !.after = after]
          /\ PassSucceeds
     ELSE IF CursorExhausted(after)
     THEN IF page = <<>>
          THEN /\ offsetObject' = [offsetObject EXCEPT !.after = ResetCursor(after)]
               /\ PassFails
          ELSE /\ offsetObject' = [after |-> ResetCursor(after),
                                   lastModifiedDate |-> ResetWindowStart(page)]
               /\ pc' = "fetch"
               /\ UNCHANGED <<kind, outcome, lastPulledDates>>
     ELSE /\ offsetObject' = [offsetObject EXCEPT !.after = after]
          /\ pc' = "fetch"
          /\ UNCHANGED <<kind, outcome, lastPulledDates>>

----------------------------------------------------------------------------
(* The passes: processContacts, processCompanies and processMeetings.      *)

NoCursor == [after |-> Undefined, lastModifiedDate |-> Undefined]

\* history: retried says a page of the pass was fetched after exactly three
\* failed searches; degraded says an association or batch read of it failed;
\* fetched holds the ids of the records of the pages of the pass; answered
\* holds the search requests of the pass that were answered, each as its
\* window start and the record its page starts after.
NoLog == [retried |-> FALSE, degraded |-> FALSE, fetched |-> {}, answered |-> {}]

\* The head of a pass, up to its first search request.
PassStart ==
  /\ pc = "start"
  /\ lastPulledDate' = lastPulledDates[acct][kind]
  /\ now' = clock
  /\ offsetObject' = NoCursor
  /\ tryCount' = 0
  /\ data' = <<>>
  /\ meetingToContactsMap' = <<>>
  /\ pushed' = <<>>
  /\ pages' = 0
  /\ searches' = 0
  /\ refreshes' = 0
  /\ passStart' = [watermark |-> lastPulledDates[acct][kind], clock |-> clock]
  /\ passLog' = NoLog
  /\ nextAfter' = Undefined
  /\ pc' = "fetch"
  /\ UNCHANGED <<delivered, refreshCall, remote, accounts, lastPulledDates, credVars, clock, acct, kind,
                 bufferVars, serial, outcome, faults>>

\* mutant: the loop gives up one attempt early
CanRetry_Early(n) == n < MaxRetries

\* while (tryCount <= 4)
CanRetry(n) == n <= MaxRetries

\* The association response of a page of contacts: contact id -> company id.
CompanyAssociations(page, ok) ==
  LET from == {page[i].id : i \in 1..Len(page)}
  IN  IF ok
      THEN [cid \in {c \in from : CompanyOf(c) # Undefined} |-> CompanyOf(cid)]
      ELSE <<>>

\* The association response of a page of meetings: meeting id -> contact ids.
MeetingContactAssociations(page, ok) ==
  LET from == {page[i].id : i \in 1..Len(page)}
  IN  IF ok
      THEN [mid \in {m \in from : AttendeesOf(m) # <<>>} |-> AttendeesOf(mid)]
      ELSE <<>>

\* uniqueContactIds: the contacts some meeting of the page is associated with
UniqueContactIds(assocMap) ==
  UNION {{assocMap[mid][i] : i \in 1..Len(assocMap[mid])} : mid \in DOMAIN assocMap}

\* The batch read of the emails of the contacts: contact id -> email.
ContactIdToEmail(contactIds, ok) ==
  IF ok THEN [cid \in contactIds |-> EmailOf(cid)] ELSE <<>>

\* data.forEach of processMeetings and what follows it; reading the properties
\* of a meeting that has none throws after the actions before it were pushed.
MeetingsEndOfPage(page, after, assocMap, contactIdToEmail) ==
  LET readable == ReadablePrefix(page)
  IN  IF readable = page
      THEN EndOfPage(page, after, MeetingActions(page, assocMap, contactIdToEmail))
      ELSE /\ Push(MeetingActions(readable, assocMap, contactIdToEmail))
           /\ offsetObject' = [offsetObject EXCEPT !.after = after]
           /\ nextAfter' = after
           /\ UNCHANGED tryCount
           /\ PassFails

\* doSearch resolves: the page is read and, for companies, transformed; for
\* contacts and meetings the association request is sent.
FetchSucceed ==
  /\ pc = "fetch"
  /\ q = <<>>
  /\ pages < MaxPages
  /\ LET page == SearchResult.results
         after == SearchResult.next
     IN  /\ data' = page
         /\ pages' = pages + 1
         /\ searches' = 0
         /\ refreshes' = 0
         /\ passLog' = [passLog EXCEPT
                          !.retried = @ \/ searches = 3,
                          !.fetched = @ \cup {page[i].id : i \in 1..Len(page)},
                          !.answered = @ \cup {SearchRequest}]
         /\ CASE kind = "companies" ->
                   /\ EndOfPage(page, after, CompanyActions(page))
                   /\ UNCHANGED meetingToContactsMap
              [] kind = "meetings" /\ page = <<>> ->
                   /\ MeetingsEndOfPage(page, after, <<>>, <<>>)
                   /\ meetingToContactsMap' = <<>>
              [] OTHER ->
                   /\ offsetObject' = [offsetObject EXCEPT !.after = after]
                   /\ nextAfter' = after
                   /\ pc' = "assoc"
                   /\ UNCHANGED <<kind, outcome, lastPulledDates, tryCount, q,
                                  pushed, serial, meetingToContactsMap>>
  /\ UNCHANGED <<delivered, refreshCall, remote, accounts, credVars, clock, acct, passConsts, actions, sink,
                 faults>>

\* doSearch rejects: the catch block of the retry loop, up to its first await.
FetchFail ==
  /\ pc = "fetch"
  /\ q = <<>>
  /\ tryCount > 0 \/ faults < MaxFaults
  /\ faults' = IF tryCount = 0 THEN faults + 1 ELSE faults
  /\ tryCount' = tryCount + 1
  /\ searches' = searches + 1
  /\ pc' = IF TokenExpired THEN "retryRefresh" ELSE "backoff"
  /\ UNCHANGED <<delivered, refreshHist, remote, accounts, lastPulledDates, credVars, clock, acct, kind,
                 passConsts, offsetObject, data, meetingToContactsMap,
                 bufferVars, pushed, serial, outcome, pages, nextAfter, passLog>>

\* await refreshAccessToken(domain, hubId) of the retry loop
RetryRefresh ==
  /\ pc = "retryRefresh"
  /\ q = <<>>
  /\ \E ok \in BOOLEAN : refreshAccessToken(acct, ok, IssuedToken(acct))
  /\ refreshes' = refreshes + 1
  /\ pc' = "backoff"
  /\ UNCHANGED <<delivered, remote, accounts, lastPulledDates, clock, acct, kind, passConsts,
                 offsetObject, tryCount, data, meetingToContactsMap, bufferVars,
                 pushed, serial, outcome, faults, pages, searches, nextAfter, passLog>>

\* The backoff sleep ends: the loop tries again, or gives up and throws.
BackoffEnds ==
  /\ pc = "backoff"
  /\ q = <<>>
  /\ IF CanRetry(tryCount)
     THEN /\ pc' = "fetch"
          /\ UNCHANGED <<kind, outcome, lastPulledDates>>
     ELSE PassFails
  /\ UNCHANGED <<delivered, refreshHist, remote, accounts, credVars, clock, acct, passConsts, offsetObject,
                 tryCount, data, meetingToContactsMap, bufferVars, pushed,
                 serial, faults, pages, searches, nextAfter, passLog>>

\* The association request of a page of contacts or meetings is answered:
\* "ok", "error" (the request rejects) or "badjson" (the body cannot be read).
AssocResponds ==
  /\ pc = "assoc"
  /\ q = <<>>
  /\ \E answer \in {"ok", "error", "badjson"} :
       /\ answer # "ok" => faults < MaxFaults
       /\ faults' = IF answer = "ok" THEN faults ELSE faults + 1
       /\ passLog' = [passLog EXCEPT !.degraded = @ \/ answer # "ok"]
       /\ IF kind = "contacts"
          THEN /\ EndOfPage(data, offsetObject.after,
                            ContactActions(data, CompanyAssociations(data, answer = "ok")))
               /\ UNCHANGED meetingToContactsMap
          ELSE IF answer = "badjson"
          THEN /\ PassFails
               /\ UNCHANGED <<meetingToContactsMap, offsetObject, tryCount, q,
                              pushed, serial, nextAfter>>
          ELSE LET assocMap == MeetingContactAssociations(data, answer = "ok")
               IN  /\ meetingToContactsMap' = assocMap
                   /\ IF UniqueContactIds(assocMap) # {}
                      THEN /\ pc' = "batch"
                           /\ UNCHANGED <<kind, outcome, lastPulledDates,
                                          offsetObject, tryCount, q, pushed, serial,
                                          nextAfter>>
                      ELSE MeetingsEndOfPage(data, offsetObject.after, assocMap, <<>>)
  /\ UNCHANGED <<delivered, refreshHist, remote, accounts, credVars, clock, acct, passConsts, data, actions, sink,
                 pages, searches>>

\* The batch read of the contact emails of a page of meetings is answered.
BatchResponds ==
  /\ pc = "batch"
  /\ q = <<>>
  /\ \E ok \in BOOLEAN :
       /\ ~ok => faults < MaxFaults
       /\ faults' = IF ok THEN faults ELSE faults + 1
       /\ passLog' = [passLog EXCEPT !.degraded = @ \/ ~ok]
       /\ MeetingsEndOfPage(data, offsetObject.after, meetingToContactsMap,
         ContactIdToEmail(UniqueContactIds(meetingToContactsMap), ok))
  /\ UNCHANGED <<delivered, refreshHist, remote, accounts, credVars, clock, acct, passConsts, data,
                 meetingToContactsMap, actions, sink, pages, searches>>

----------------------------------------------------------------------------
(* pullDataFromHubspot.                                                    *)

\* The refresh at the head of the loop body, then actions = [] and createQueue.
AccountRefresh ==
  /\ pc = "refresh"
  /\ \E ok \in BOOLEAN : refreshAccessToken(acct, ok, IssuedToken(acct))
  /\ actions' = <<>>
  /\ q' = <<>>
  /\ serial' = 0
  /\ kind' = "contacts"
  /\ pc' = "start"
  /\ UNCHANGED <<delivered, refreshes, remote, accounts, lastPulledDates, clock, acct, passConsts, offsetObject,
                 tryCount, data, meetingToContactsMap, sink, pushed,
                 outcome, faults, pages, searches, nextAfter, passLog>>

\* drainQueue, once the queue has no waiting task
drainQueue ==
  /\ pc = "drain"
  /\ q = <<>>
  /\ sink' = IF Len(actions) > 0 THEN Append(sink, Batch("drain", actions)) ELSE sink
  /\ pc' = "save"
  /\ UNCHANGED <<delivered, refreshHist, remote, accounts, lastPulledDates, credVars, clock, acct, kind,
                 passConsts, offsetObject, tryCount, data, meetingToContactsMap,
                 actions, q, pushed, serial, outcome, faults, pages, searches,
                 nextAfter, passLog>>

\* saveDomain, then the next account or process.exit()
saveDomain ==
  /\ pc = "save"
  /\ IF acct < Len(accounts)
     THEN /\ acct' = acct + 1
          /\ pc' = "refresh"
     ELSE /\ acct' = acct
          /\ pc' = "exited"
  /\ UNCHANGED <<delivered, refreshHist, remote, accounts, lastPulledDates, credVars, clock, kind, passConsts,
                 offsetObject, tryCount, data, meetingToContactsMap, bufferVars,
                 pushed, serial, outcome, faults, pages, searches, nextAfter, passLog>>

\* goal() of ./utils completes the delivery of a batch it was handed.  The
\* worker awaits no call of goal, so a delivery completes at any later turn of
\* the event loop; process.exit() ends the deliveries still under way.
GoalDelivers ==
  /\ pc # "exited"
  /\ \E i \in DOMAIN sink \ delivered : delivered' = delivered \cup {i}
  /\ UNCHANGED <<remote, accounts, lastPulledDates, credVars, clock, acct, kind, pc,
                 passConsts, offsetObject, tryCount, data, meetingToContactsMap,
                 bufferVars, pushed, serial, outcome, faults, pages, searches,
                 nextAfter, passLog, refreshHist>>

\* Time passes while a search or a token exchange is in flight.  The clock is
\* read at the head of a pass, in the catch block of the retry loop and in
\* refreshAccessToken; between two such reads the worker is at one of these
\* awaits, so every sequence of clock readings is covered.
Tick ==
  /\ pc \in {"fetch", "retryRefresh"}
  /\ q = <<>>
  /\ clock < MaxClock
  /\ clock' = clock + 1
  /\ UNCHANGED <<delivered, refreshHist, remote, accounts, lastPulledDates, credVars, acct, kind, pc, passConsts,
                 offsetObject, tryCount, data, meetingToContactsMap, bufferVars,
                 pushed, serial, outcome, faults, pages, searches, nextAfter, passLog>>

----------------------------------------------------------------------------
InitialWatermarks == {BaseTime - 1, BaseTime}

\* The watermarks a run over n accounts starts from.
RunWatermarks(n) == IF n = 1 THEN InitialWatermarks ELSE {BaseTime}

Init ==
  /\ \E n \in Accounts, populated \in Kinds :
       /\ accounts = [i \in 1..n |-> i]
       /\ \E d \in RunDataSets(n) :
            remote = [k \in Kinds |-> IF k = populated THEN d ELSE <<>>]
       /\ \E w \in RunWatermarks(n) :
            lastPulledDates = [a \in Accounts |-> [k \in Kinds |-> w]]
  /\ accessToken = [a \in Accounts |-> <<a, 1>>]
  /\ clientToken = NoToken
  /\ expirationDate = Undefined
  /\ clock = Clock0
  /\ acct = 1
  /\ kind = "contacts"
  /\ pc = "refresh"
  /\ lastPulledDate = Undefined
  /\ now = Undefined
  /\ offsetObject = NoCursor
  /\ tryCount = 0
  /\ data = <<>>
  /\ meetingToContactsMap = <<>>
  /\ actions = <<>>
  /\ q = <<>>
  /\ sink = <<>>
  /\ delivered = {}
  /\ pushed = <<>>
  /\ serial = 0
  /\ outcome = [a \in Accounts |-> [k \in Kinds |-> "none"]]
  /\ faults = 0
  /\ pages = 0
  /\ searches = 0
  /\ passStart = [watermark |-> Undefined, clock |-> Undefined]
  /\ passLog = NoLog
  /\ nextAfter = Undefined
  /\ refreshCall = NoCall
  /\ refreshes = 0

Next ==
  \/ AccountRefresh
  \/ PassStart
  \/ FetchSucceed
  \/ FetchFail
  \/ RetryRefresh
  \/ BackoffEnds
  \/ AssocResponds
  \/ BatchResponds
  \/ QueueWorker
  \/ drainQueue
  \/ saveDomain
  \/ GoalDelivers
  \/ Tick

Spec == Init /\ [][Next]_vars

----------------------------------------------------------------------------
(* Vocabulary of the properties.                                           *)

\* The worker is inside a pass, between its head and its return.
InPass == pc \in {"fetch", "retryRefresh", "backoff", "assoc", "batch"}

\* The pass of kind k of the current account has just returned.
Returned(k) ==
  \/ k = "contacts" /\ pc = "start" /\ kind = "companies"
  \/ k = "companies" /\ pc = "start" /\ kind = "meetings"
  \/ k = "meetings" /\ pc = "drain"

\* The remote record an action was built from.
SourceOf(a) == remote[a.kind][a.src]

Range(seq) == {seq[i] : i \in 1..Len(seq)}

----------------------------------------------------------------------------
\* C1: for every entity kind, the watermark keeps its pass-start value during
\* the whole pass, changes only when that pass ends successfully, and is then
\* exactly the clock reading taken at the head of the pass.
C1_WatermarkIsPassStartNow ==
  /\ [](InPass => lastPulledDates[acct][kind] = passStart.watermark)
  /\ [](\A k \in Kinds :
          Returned(k) /\ outcome[acct][k] = "DONE"
            => lastPulledDates[acct][k] = passStart.clock)
  /\ [][\A a \in Accounts, k \in Kinds :
          lastPulledDates'[a][k] # lastPulledDates[a][k]
            => /\ a = acct /\ k = kind /\ InPass
               /\ outcome'[a][k] = "DONE"
               /\ lastPulledDates'[a][k] = passStart.clock]_vars

\* A pass of two pages or more has ended successfully while the clock has moved
\* on since its head, and its last page held a record modified at another time.
C1_Witness ==
  \E k \in Kinds :
    /\ Returned(k) /\ outcome[acct][k] = "DONE"
    /\ pages >= 2
    /\ clock > passStart.clock
    /\ lastPulledDates[acct][k] = passStart.clock
    /\ data # <<>> /\ data[Len(data)].updatedAt # passStart.clock

\* C2: a pass that ends in failure (its retries exhausted, or any other error)
\* returns false and leaves the watermark of its kind at its pass-start value.
C2_FailedPassKeepsWatermark ==
  \A k \in Kinds :
    Returned(k) =>
      /\ searches > 4 => outcome[acct][k] = "FAILED"
      /\ outcome[acct][k] = "FAILED"
           => lastPulledDates[acct][k] = passStart.watermark

\* A pass has failed on exhausted retries after an earlier page was processed.
C2_Witness ==
  \E k \in Kinds :
    /\ Returned(k) /\ outcome[acct][k] = "FAILED"
    /\ searches = 5
    /\ pages >= 1 /\ pushed # <<>>
    /\ clock > passStart.clock
    /\ lastPulledDates[acct][k] = passStart.watermark

----------------------------------------------------------------------------
\* C3: within one pass no remote record is transformed and pushed more than
\* once (per resolved identity for meetings), cursor resets included.
C3_NoRecordPushedTwice ==
  \A i, j \in DOMAIN pushed :
    i # j => ~(pushed[i].src = pushed[j].src /\ pushed[i].identity = pushed[j].identity)

\* The positions of the sink: batch i, entry j.
SinkEntries ==
  UNION {{<<i, j>> : j \in DOMAIN sink[i].batch} : i \in DOMAIN sink}

\* The account and the push an entry of the sink comes from.
PushOf(e) == <<sink[e[1]].account, sink[e[1]].batch[e[2]].serial>>

\* drainQueue of the current account has returned.
Drained == pc \in {"save", "exited"}

\* C4: no pushed action is handed to the sink in two batches, and once
\* drainQueue has returned every action pushed for the account has been handed
\* to the sink.
C4_EveryActionFlushedOnce ==
  /\ \A e1, e2 \in SinkEntries : PushOf(e1) = PushOf(e2) => e1 = e2
  /\ Drained =>
       {PushOf(e)[2] : e \in {x \in SinkEntries : sink[x[1]].account = acct}}
         = 1..serial

\* An account has been drained after a threshold flush and a final flush.
C4_Witness ==
  /\ Drained
  /\ serial > FlushThreshold + 1
  /\ \E i, j \in DOMAIN sink :
       /\ sink[i].account = acct /\ sink[i].by = "threshold"
       /\ sink[j].account = acct /\ sink[j].by = "drain"

\* C5: between pushes the pending collection never holds more than the
\* threshold; the push that takes it over the threshold hands the whole
\* collection, threshold + 1 actions, to the sink and leaves it empty.
C5_PendingBounded ==
  /\ [](Len(actions) <= FlushThreshold)
  /\ [][(sink' # sink /\ sink'[Len(sink')].by = "threshold")
          => /\ q # <<>>
             /\ sink' = Append(sink, Batch("threshold", Append(actions, Head(q))))
             /\ Len(actions) = FlushThreshold
             /\ actions' = <<>>]_vars

\* A threshold flush has just emptied the pending collection.
C5_Witness ==
  /\ sink # <<>>
  /\ sink[Len(sink)].by = "threshold"
  /\ Len(sink[Len(sink)].batch) = FlushThreshold + 1
  /\ actions = <<>>

----------------------------------------------------------------------------
PageActions(k, page) ==
  CASE k = "companies" -> CompanyActions(page)
    [] k = "contacts" -> ContactActions(page, CompanyAssociations(page, TRUE))
    [] OTHER ->
         LET assocMap == MeetingContactAssociations(page, TRUE)
         IN  MeetingActions(page, assocMap,
                            ContactIdToEmail(UniqueContactIds(assocMap), TRUE))

\* The actions of a pass of kind k over the window [start, end] in which every
\* search succeeds at its first attempt, from the request for cursor `after`
\* with window start `from` on; at most `fuel` pages.
RECURSIVE FirstAttemptPass(_, _, _, _, _)
FirstAttemptPass(k, from, end, after, fuel) ==
  IF fuel = 0
  THEN <<>>
  ELSE LET res == doSearch(remote[k], generateLastModifiedDateFilter(from, end), after)
           acts == PageActions(k, res.results)
       IN  IF ~Truthy(res.next)
           THEN acts
           ELSE IF res.next >= CursorLimit
           THEN acts \o FirstAttemptPass(k, res.results[Len(res.results)].updatedAt,
                                         end, 0, fuel - 1)
           ELSE acts \o FirstAttemptPass(k, from, end, res.next, fuel - 1)

Untagged(seq) ==
  [i \in 1..Len(seq) |-> [f \in DOMAIN seq[i] \ {"serial"} |-> seq[i][f]]]

\* C7: a pass that ends successfully has pushed the actions, and committed the
\* watermark, of the pass over the same window in which every search succeeds
\* at its first attempt, however many searches failed before they succeeded.
C7_RetriesAreTransparent ==
  \A k \in Kinds :
    (Returned(k) /\ outcome[acct][k] = "DONE" /\ ~passLog.degraded)
      => /\ Untagged(pushed)
              = FirstAttemptPass(k, passStart.watermark, passStart.clock,
                                 Undefined, MaxPages)
         /\ lastPulledDates[acct][k] = passStart.clock

\* A pass that pushed actions has ended successfully although a page was
\* fetched only after three failed searches, during which the clock moved on.
C7_Witness ==
  \E k \in Kinds :
    /\ Returned(k) /\ outcome[acct][k] = "DONE"
    /\ passLog.retried /\ ~passLog.degraded
    /\ Len(pushed) >= 2
    /\ clock > passStart.clock

----------------------------------------------------------------------------
CreatedName(k) ==
  CASE k = "contacts" -> "Contact Created"
    [] k = "companies" -> "Company Created"
    [] OTHER -> "Meeting Created"

UpdatedName(k) ==
  CASE k = "contacts" -> "Contact Updated"
    [] k = "companies" -> "Company Updated"
    [] OTHER -> "Meeting Updated"

\* C8: every pushed action, of every kind, is named Created exactly when its
\* record was created strictly after the watermark the pass started from, and
\* Updated otherwise, also after a cursor reset has advanced the window start.
C8_CreatedIffAfterWatermark ==
  \A a \in Range(pushed) :
    a.actionName =
      IF SourceOf(a).createdAt > passStart.watermark
      THEN CreatedName(a.kind)
      ELSE UpdatedName(a.kind)

\* After a cursor reset has advanced the window start, a page held a record
\* created exactly at the pass-start watermark, pushed as Updated, next to a
\* record pushed as Created.
C8_Witness ==
  /\ Truthy(offsetObject.lastModifiedDate)
  /\ offsetObject.lastModifiedDate > passStart.watermark
  /\ offsetObject.after # 0
  /\ \E r \in Range(data), a \in Range(pushed) :
       /\ r.createdAt = passStart.watermark
       /\ r.updatedAt > passStart.watermark
       /\ a.src = r.id
       /\ a.actionName = UpdatedName(a.kind)
  /\ \E a \in Range(pushed) : a.actionName = CreatedName(a.kind)

\* C9: every pushed action, of every kind, is dated at its record's creation
\* time when named Created and at its record's modified time when named
\* Updated, with no offset.
C9_ActionDateIsRecordDate ==
  \A a \in Range(pushed) :
    a.actionDate =
      IF a.actionName = CreatedName(a.kind)
      THEN SourceOf(a).createdAt
      ELSE SourceOf(a).updatedAt

\* C10: the window start of a pass begins at the account's watermark, never
\* decreases, and changes only at the end of a page whose response carried a
\* next cursor at or beyond the depth limit, where the cursor is reset.
C10_WindowStartMonotonic ==
  /\ [][(pc = "start" /\ pc' = "fetch")
          => WindowStart' = lastPulledDates[acct][kind]]_vars
  /\ [][(InPass /\ InPass')
          => /\ WindowStart' >= WindowStart
             /\ WindowStart' # WindowStart
                  => /\ pc \in {"fetch", "assoc", "batch"} /\ pc' = "fetch"
                     /\ nextAfter' >= CursorLimit
                     /\ offsetObject'.after = 0]_vars

\* A cursor reset has moved the window start past the watermark.
C10_Witness ==
  /\ pc = "fetch"
  /\ offsetObject.after = 0
  /\ nextAfter >= CursorLimit
  /\ WindowStart > passStart.watermark
  /\ WindowStart = data[Len(data)].updatedAt

----------------------------------------------------------------------------
\* A step that ends a page by resetting the cursor: the response carried a next
\* cursor at or beyond the depth limit and the pass goes on to the next request.
CursorResetStep ==
  /\ \/ pc = "fetch" /\ pages' = pages + 1
     \/ pc \in {"assoc", "batch"}
  /\ pc' = "fetch"
  /\ nextAfter' >= CursorLimit
  /\ offsetObject'.after = 0

\* C11: at every cursor reset the window start of the next request is strictly
\* greater than the window start of the request that returned the page, also
\* when many records share one modified time.
C11_ResetStrictlyAdvances ==
  [][CursorResetStep => WindowStart' > WindowStart]_vars

----------------------------------------------------------------------------
\* C12: the step that takes the answer of the association lookup or of the
\* batch read of a page, whatever the answer, never ends the pass in failure:
\* the pass goes on to the batch read or the next page, or returns true.
C12_AssociationFailureNeverAborts ==
  [][(pc \in {"assoc", "batch"} /\ pc' # pc)
       => outcome'[acct][kind] # "FAILED"]_vars

----------------------------------------------------------------------------
\* The actions pushed by the step that is being taken.
JustPushed == SubSeq(pushed', Len(pushed) + 1, Len(pushed'))

\* The record and the identity of every action of acts.
Deliveries(acts) == {<<a.src, a.identity>> : a \in Range(acts)}

\* The resolved attendees of the meetings of a page: meeting and email, for
\* every associated contact that has an email.
ResolvedAttendees(page) ==
  UNION {{<<m.id, EmailOf(cid)>> :
            cid \in {c \in Range(AttendeesOf(m.id)) : EmailOf(c) # NoIdentity}} :
         m \in Range(page)}

\* C13: every pushed contact or meeting action carries a non-empty identity;
\* a page of contacts yields an action exactly for its contacts that have an
\* email, a page of meetings at most one per associated contact whose email
\* is resolved, exactly so when the association and batch reads are answered;
\* and a pass fails only on exhausted retries or a failed read, never because
\* a record has no identity.
C13_NoIdentitySkipped ==
  /\ [](\A a \in Range(pushed) :
          a.kind \in {"contacts", "meetings"} => a.identity # NoIdentity)
  /\ [](\A k \in Kinds :
          Returned(k) /\ outcome[acct][k] = "FAILED"
            => searches = 5 \/ passLog.degraded)
  /\ [][(pc = "assoc" /\ pc' # pc /\ kind = "contacts")
          => Deliveries(JustPushed)
               = {<<c.id, c.email>> : c \in {r \in Range(data) : r.email # NoIdentity}}]_vars
  /\ [][(pc \in {"assoc", "batch"} /\ pc' # pc /\ kind = "meetings")
          => /\ Deliveries(JustPushed) \subseteq ResolvedAttendees(data)
             /\ (pc' # "batch" /\ ~passLog'.degraded)
                  => Deliveries(JustPushed) = ResolvedAttendees(data)]_vars

\* A meetings pass has ended successfully with every read answered, after a
\* page that held a meeting with no associated contact and a meeting with an
\* associated contact that has no email, next to one that was delivered.
C13_Witness ==
  /\ Returned("meetings") /\ outcome[acct]["meetings"] = "DONE"
  /\ ~passLog.degraded
  /\ \E m \in Range(remote["meetings"]) :
       /\ AttendeesOf(m.id) = <<>>
       /\ \A a \in Range(pushed) : a.src # m.id
  /\ \E m \in Range(remote["meetings"]), a \in Range(pushed) :
       /\ a.src = m.id
       /\ \E cid \in Range(AttendeesOf(m.id)) : EmailOf(cid) = NoIdentity
       /\ \A b \in Range(pushed) : b.src = m.id => b.identity = a.identity

----------------------------------------------------------------------------
\* The step of the loop body of pullDataFromHubspot the worker is in.
Phase ==
  IF pc = "start" \/ InPass THEN kind ELSE pc

\* The step that follows step p of the loop body for the current account.
FollowingPhase(p) ==
  CASE p = "refresh" -> "contacts"
    [] p = "contacts" -> "companies"
    [] p = "companies" -> "meetings"
    [] p = "meetings" -> "drain"
    [] p = "drain" -> "save"
    [] p = "save" -> IF acct < Len(accounts) THEN "refresh" ELSE "exited"
    [] OTHER -> "exited"

\* C14: for every account the steps run in the order refresh, contacts,
\* companies, meetings, drain, save, whatever the refresh and the passes
\* return; the accounts are taken in order, the next one after the save of
\* the one before; and the process exits only after the save of the last
\* account, when every pass of every account has returned.
C14_StepsInOrder ==
  /\ Phase = "refresh" /\ acct = 1
  /\ [][Phase' # Phase
          => /\ Phase' = FollowingPhase(Phase)
             /\ acct' = IF Phase = "save" /\ acct < Len(accounts)
                        THEN acct + 1 ELSE acct]_vars
  /\ [][Phase' = Phase => acct' = acct]_vars
  /\ [](pc \in {"drain", "save", "exited"}
          => \A k \in Kinds : outcome[acct][k] \in {"DONE", "FAILED"})
  /\ [](pc = "exited"
          => /\ acct = Len(accounts)
             /\ \A a \in 1..Len(accounts), k \in Kinds :
                  outcome[a][k] \in {"DONE", "FAILED"})

\* The process has exited after two accounts, although the refresh of the
\* first account failed and one of its passes failed.
C14_Witness ==
  /\ pc = "exited"
  /\ Len(accounts) = 2
  /\ accessToken[1] = <<1, 1>>
  /\ \E k \in Kinds : outcome[1][k] = "FAILED"
  /\ \A k \in Kinds : outcome[2][k] = "DONE"

----------------------------------------------------------------------------
(* refreshAccessToken on its own: the credential state, the account list    *)
(* and the clock are drawn from small sets, and the function is called with *)
(* any hubId, of a configured account or not, and any answer of the token   *)
(* exchange.                                                                *)

HubIds == 0..NumAccounts
TokenVersions == {1, 2}
Times == BaseTime..MaxClock

RefreshInit ==
  /\ \E n \in Accounts : accounts = [i \in 1..n |-> i]
  /\ accessToken \in [Accounts -> {0} \X TokenVersions]
       \cup {[a \in Accounts |-> <<a, v>>] : v \in TokenVersions}
  /\ clientToken \in {NoToken} \cup (Accounts \X TokenVersions)
  /\ expirationDate \in {Undefined} \cup Times
  /\ clock \in Clock0..MaxClock
  /\ remote = [k \in Kinds |-> <<>>]
  /\ lastPulledDates = [a \in Accounts |-> [k \in Kinds |-> BaseTime]]
  /\ acct = 1
  /\ kind = "contacts"
  /\ pc = "refresh"
  /\ lastPulledDate = Undefined
  /\ now = Undefined
  /\ offsetObject = NoCursor
  /\ tryCount = 0
  /\ data = <<>>
  /\ meetingToContactsMap = <<>>
  /\ actions = <<>>
  /\ q = <<>>
  /\ sink = <<>>
  /\ delivered = {}
  /\ pushed = <<>>
  /\ serial = 0
  /\ outcome = [a \in Accounts |-> [k \in Kinds |-> "none"]]
  /\ faults = 0
  /\ pages = 0
  /\ searches = 0
  /\ passStart = [watermark |-> Undefined, clock |-> Undefined]
  /\ passLog = NoLog
  /\ nextAfter = Undefined
  /\ refreshCall = NoCall
  /\ refreshes = 0

\* One call of refreshAccessToken(domain, hubId).
RefreshCall ==
  /\ \E hubId \in HubIds, ok \in BOOLEAN, v \in TokenVersions :
       refreshAccessToken(hubId, ok, <<hubId, v>>)
  /\ UNCHANGED <<delivered, remote, accounts, lastPulledDates, clock, acct, kind, pc, passConsts,
                 offsetObject, tryCount, data, meetingToContactsMap, bufferVars,
                 pushed, serial, outcome, faults, pages, searches, nextAfter, passLog,
                 refreshes>>

RefreshNext == RefreshCall

RefreshSpec == RefreshInit /\ [][RefreshNext]_vars

\* C15: a call of refreshAccessToken returns false exactly when there is no
\* account with the hubId or the token exchange throws, and then the account's
\* accessToken, the client's token and the tracked expiry are what they were;
\* a call that returns true sets the client's token and the expiry and
\* replaces the accessToken of that account only, and only by a token that
\* differs from it.
C15_FailedRefreshKeepsCredentials ==
  [][(credVars' # credVars \/ refreshCall' # refreshCall)
       => LET c == refreshCall'
          IN  /\ c.returned = (c.ok /\ c.hubId \in Range(accounts))
              /\ ~c.returned => credVars' = credVars
              /\ c.returned
                   => /\ clientToken' = c.newAccessToken
                      /\ expirationDate' = ExpiresIn + clock
                      /\ \A a \in Accounts :
                           accessToken'[a] # accessToken[a]
                             => a = c.hubId /\ accessToken'[a] = c.newAccessToken
                      /\ accessToken'[c.hubId] = c.newAccessToken]_vars

\* A call for a hubId that no account has, whose token exchange would have
\* answered, has returned false with credentials in place.
C15_Witness ==
  /\ refreshCall # NoCall
  /\ ~refreshCall.returned
  /\ refreshCall.ok /\ refreshCall.hubId \notin Range(accounts)
  /\ clientToken # NoToken
  /\ expirationDate # Undefined
  /\ \E a \in Range(accounts) : accessToken[a] = clientToken

----------------------------------------------------------------------------
\* C16: the properties map of every pushed action, of every kind, has no
\* null-valued key.
C16_NoNullProperties ==
  \A a \in Range(pushed) :
    \A key \in DOMAIN a.properties : a.properties[key] # Null

----------------------------------------------------------------------------
\* C17: when the process has exited, the delivery of the batch that drainQueue
\* handed to the sink for the last account has completed.
C17_FinalFlushAwaited ==
  pc = "exited"
    => \A i \in DOMAIN sink :
         (sink[i].by = "drain" /\ sink[i].account = Len(accounts))
           => i \in delivered

----------------------------------------------------------------------------
\* C18: the retry loop of one page fetch calls refreshAccessToken at most
\* once, however many of its searches fail and whatever the refresh returns.
C18_RefreshAtMostOnce ==
  refreshes <= 1

----------------------------------------------------------------------------
\* A step that ends a page and goes on to the next request of the pass.
NextRequestStep ==
  /\ \/ pc = "fetch" /\ pages' = pages + 1
     \/ pc \in {"assoc", "batch"}
  /\ pc' = "fetch"

\* C19: no search is requested with a cursor at or beyond the depth limit;
\* the request that follows a response whose next cursor is at or beyond the
\* limit uses cursor 0 and a window that starts at the modified time of the
\* last record of the page just completed, and the request that follows a
\* response whose next cursor is below the limit uses that cursor and the
\* same window start.
C19_NoRequestBeyondDepthLimit ==
  /\ [](pc \in {"fetch", "retryRefresh", "backoff"}
          => offsetObject.after = Undefined \/ offsetObject.after < CursorLimit)
  /\ [][NextRequestStep
          => IF nextAfter' >= CursorLimit
             THEN /\ offsetObject'.after = 0
                  /\ WindowStart' = data'[Len(data')].updatedAt
             ELSE /\ offsetObject'.after = nextAfter'
                  /\ WindowStart' = WindowStart]_vars

\* After a cursor reset, a page came with a next cursor below the depth limit
\* and the next request is about to use it.
C19_Witness ==
  /\ pc = "fetch"
  /\ Truthy(offsetObject.lastModifiedDate)
  /\ nextAfter > 0 /\ nextAfter < CursorLimit
  /\ offsetObject.after = nextAfter
  /\ pages >= 3

----------------------------------------------------------------------------
\* The deliveries a record of kind k is due when the reads of its page are
\* answered: the record itself for a company, the contact's email for a
\* contact that has one, the email of every resolved attendee for a meeting.
DueDeliveries(k, r) ==
  CASE k = "companies" -> {<<r.id, NoIdentity>>}
    [] k = "contacts" -> IF r.email # NoIdentity THEN {<<r.id, r.email>>} ELSE {}
    [] OTHER -> ResolvedAttendees(<<r>>)

\* C20: when a pass has ended successfully, every remote record modified
\* between the watermark the pass started from and the clock reading at its
\* head has been fetched in a page of the pass, cursor resets included, and
\* what it is due has been pushed (for a meeting, when the association and
\* batch reads were answered).
C20_NoRecordSkipped ==
  \A k \in Kinds :
    (Returned(k) /\ outcome[acct][k] = "DONE")
      => \A r \in Range(remote[k]) :
           (r.updatedAt >= passStart.watermark /\ r.updatedAt <= passStart.clock)
             => /\ r.id \in passLog.fetched
                /\ (k = "meetings" => ~passLog.degraded)
                     => DueDeliveries(k, r) \subseteq Deliveries(pushed)

\* A pass of three pages or more has ended successfully after a cursor reset,
\* over a window that holds every remote record, one of them modified exactly
\* at the watermark and some record due a delivery.
C20_Witness ==
  \E k \in Kinds :
    /\ Returned(k) /\ outcome[acct][k] = "DONE"
    /\ Truthy(offsetObject.lastModifiedDate)
    /\ pages >= 3
    /\ Len(remote[k]) = MaxRecords
    /\ \A r \in Range(remote[k]) :
         r.updatedAt >= passStart.watermark /\ r.updatedAt <= passStart.clock
    /\ \E r \in Range(remote[k]) : r.updatedAt = passStart.watermark
    /\ pushed # <<>>

----------------------------------------------------------------------------
\* C21: a pass never repeats a search request that was already answered in
\* it.  The remote records and the window end being fixed during the pass, a
\* repeated request gets the same page and leads to the same next request:
\* the pass that repeats one never reaches DONE or FAILED.
C21_NoRequestRepeated ==
  [][(pc = "fetch" /\ pages' = pages + 1) => SearchRequest \notin passLog.answered]_vars

----------------------------------------------------------------------------
\* The account the process-wide credentials belong to: the client token and
\* the tracked expiry are set together, by a successful refresh only, so the
\* hub id the client token was issued for is also the one the expiry was
\* set for.  NoIdentity while no refresh has succeeded.
CredentialOwner == clientToken[1]

\* A request is made with the client token at each search and at each
\* association or batch read; the expiry is consulted after a failed search.
UsesCredentials == pc \in {"fetch", "assoc", "batch", "retryRefresh"}

\* C22: while an account is processed, the credentials its requests and its
\* retry loops use were never obtained for another account.
C22_NoCredentialOfAnotherAccount ==
  (UsesCredentials /\ clientToken # NoToken) => CredentialOwner = accounts[acct]

----------------------------------------------------------------------------
\* The pass an entry of the sink was pushed by: each account runs one pass
\* per entity kind, and an action carries the kind of the pass that built it.
PassOf(e) == <<sink[e[1]].account, sink[e[1]].batch[e[2]].kind>>

\* C23: no action pushed by a pass that ended FAILED is handed to the sink,
\* neither by a threshold flush nor by the final drain of the account.
C23_FailedPassDeliversNothing ==
  \A e \in SinkEntries : outcome[PassOf(e)[1]][PassOf(e)[2]] # "FAILED"

====
